---------------------------- MODULE Spec2Model ----------------------------
(***************************************************************************)
(* Model of src/_base.ts: RSA key generation, signature verification, the  *)
(* hybrid envelope (encryptTo / encryptTo.asString) and the AES helpers.   *)
(*                                                                         *)
(* JavaScript values are records tagged by `t` ("undefined", "string",     *)
(* "bytes", "CryptoKey").  A string is its sequence of character codes, a  *)
(* byte buffer its sequence of bytes 0..255.  A promise's outcome is a     *)
(* record [ok |-> TRUE, val |-> v] (fulfilled) or [ok |-> FALSE,           *)
(* err |-> e] (rejected).                                                  *)
(*                                                                         *)
(* The Primitive Provider (webcrypto.subtle) is an ideal functionality:    *)
(* every ciphertext and signature it returns is a fresh byte string that   *)
(* it remembers in a table; decryption and verification look the bytes up. *)
(***************************************************************************)
EXTENDS Integers, Sequences, FiniteSets, TLC

VARIABLES
    keyring,    \* keypairs returned by makeRSAKeypair, in order
    keygen,     \* record of the last makeRSAKeypair call
    gcmTable,   \* provider: AES-GCM ciphertexts produced
    rsaTable,   \* provider: RSA-OAEP ciphertexts produced
    sigTable,   \* provider: signatures produced
    pc,         \* per encryptTo call: the await it is suspended at
    args,       \* per encryptTo call: the caller's arguments
    loc,        \* per encryptTo call: its local variables
    result,     \* per encryptTo call: the outcome of the returned promise
    verified,   \* record of the last verify call
    aesOp       \* record of the last AES.encrypt / AES.decrypt call pair

vars == <<keyring, keygen, gcmTable, rsaTable, sigTable,
          pc, args, loc, result, verified, aesOp>>

-----------------------------------------------------------------------------
(* Bounds of the model *)

\* concurrent encryptTo calls in SpecConc
NCalls == 2
\* keypairs makeRSAKeypair may produce in one behaviour
MaxKeys == 2
\* signatures the provider may produce in one behaviour (SpecSig)
MaxSigs == 2
\* AES.encrypt calls in one behaviour (SpecAES)
MaxAesOps == 2

(* Program constants *)

\* constants.js, imported at _base.ts:15
IV_LENGTH == 12
\* constants.js, imported at _base.ts:11 (bits)
DEFAULT_SYMM_LENGTH == 256
\* constants.js, imported at _base.ts:9 (bits per character)
DEFAULT_CHAR_SIZE == 8
\* AES-GCM authentication tag appended by the provider (bytes)
TAG_LENGTH == 16
\* RSA-OAEP with SHA-256: bytes of the modulus not available to the message
OAEP_OVERHEAD == 66

DEFAULT_SYMM_ALGORITHM == "AES-GCM"
AES_GCM == "AES-GCM"
RSA_ALGORITHM == "RSA-OAEP"
RSA_SIGN_ALGORITHM == "RSASSA-PKCS1-v1_5"
SHA_256 == "SHA-256"

\* types.js KeyUse
KeyUse_Exchange == "Exchange"
KeyUse_Sign == "Sign"
KeyUse == {KeyUse_Exchange, KeyUse_Sign}

\* types.js RsaSize (bits); the model uses the two smallest
RsaSizes == {1024, 2048}

-----------------------------------------------------------------------------
(* JavaScript values *)

Undefined == [t |-> "undefined"]
Str(s) == [t |-> "string", v |-> s]
Bytes(b) == [t |-> "bytes", v |-> b]

Ok(v) == [ok |-> TRUE, val |-> v]
Err(e) == [ok |-> FALSE, err |-> e]

\* JavaScript truthiness of an optional argument: undefined and "" are falsy
Truthy(x) ==
    /\ x.t # "undefined"
    /\ ~(x.t = "string" /\ Len(x.v) = 0)

Min(a, b) == IF a < b THEN a ELSE b

\* ArrayBuffer.slice(from) / slice(from, to) on a byte sequence (0-based, to exclusive)
Slice(b, from, to) ==
    LET lo == Min(from, Len(b))
        hi == Min(to, Len(b))
    IN  IF hi <= lo THEN <<>> ELSE SubSeq(b, lo + 1, hi)

\* util.js joinBufs: a new buffer holding a followed by b
joinBufs(a, b) == a \o b

\* util.js isCryptoKey
isCryptoKey(x) == x.t = "CryptoKey"

\* the provider's random source: draw number `seed`, n bytes.  Two draws
\* differ at every position (89 is odd, seeds stay below 256).
RandomBytes(seed, n) == [i \in 1..n |-> (seed * 89 + i * 31) % 256]

\* util.js randomBuf
randomBuf(seed, n) == RandomBytes(seed, n)

-----------------------------------------------------------------------------
(* Text codecs *)

\* uint8arrays fromString(s) (utf8): one byte below 128, two bytes below 2048
RECURSIVE fromString(_)
fromString(s) ==
    IF Len(s) = 0 THEN <<>>
    ELSE LET c == Head(s)
             enc == IF c < 128 THEN <<c>>
                    ELSE <<192 + (c \div 64), 128 + (c % 64)>>
         IN  enc \o fromString(Tail(s))

\* the base64 alphabet: character code of a 6-bit value
B64Char(n) ==
    IF n < 26 THEN 65 + n
    ELSE IF n < 52 THEN 97 + (n - 26)
    ELSE IF n < 62 THEN 48 + (n - 52)
    ELSE IF n = 62 THEN 43 ELSE 47

\* 6-bit value of a character code, -1 when it is not in the alphabet
B64Val(c) ==
    IF c >= 65 /\ c <= 90 THEN c - 65
    ELSE IF c >= 97 /\ c <= 122 THEN c - 97 + 26
    ELSE IF c >= 48 /\ c <= 57 THEN c - 48 + 52
    ELSE IF c = 43 THEN 62
    ELSE IF c = 47 THEN 63 ELSE -1

B64Pad == 61

\* uint8arrays toString(bytes, 'base64pad') and util.js toBase64
toBase64pad(b) ==
    LET n == Len(b)
        at(i) == IF i <= n THEN b[i] ELSE 0
    IN  [k \in 1..(4 * ((n + 2) \div 3)) |->
            LET g == (k - 1) \div 4
                pos == (k - 1) % 4
                b1 == at(3 * g + 1)
                b2 == at(3 * g + 2)
                b3 == at(3 * g + 3)
            IN  IF pos = 0 THEN B64Char(b1 \div 4)
                ELSE IF pos = 1 THEN B64Char((b1 % 4) * 16 + (b2 \div 16))
                ELSE IF pos = 2 THEN
                    (IF 3 * g + 2 > n THEN B64Pad
                     ELSE B64Char((b2 % 16) * 4 + (b3 \div 64)))
                ELSE (IF 3 * g + 3 > n THEN B64Pad ELSE B64Char(b3 % 64))]

\* number of trailing '=' of a base64pad string (0, 1 or 2)
B64Padding(s) ==
    LET n == Len(s)
    IN  IF n >= 2 /\ s[n] = B64Pad /\ s[n - 1] = B64Pad THEN 2
        ELSE IF n >= 1 /\ s[n] = B64Pad THEN 1 ELSE 0

\* whether s is well-formed padded base64
B64Valid(s) ==
    /\ Len(s) % 4 = 0
    /\ \A k \in 1..(Len(s) - B64Padding(s)) : B64Val(s[k]) >= 0

\* util.js base64ToArrBuf: the bytes a padded base64 string encodes
base64ToArrBuf(s) ==
    IF ~B64Valid(s) THEN Err("InvalidEncoding")
    ELSE LET n == (Len(s) \div 4) * 3 - B64Padding(s)
             v(k) == IF s[k] = B64Pad THEN 0 ELSE B64Val(s[k])
         IN  Ok([i \in 1..n |->
                LET g == (i - 1) \div 3
                    pos == (i - 1) % 3
                    c1 == v(4 * g + 1)
                    c2 == v(4 * g + 2)
                    c3 == v(4 * g + 3)
                    c4 == v(4 * g + 4)
                IN  IF pos = 0 THEN c1 * 4 + (c2 \div 16)
                    ELSE IF pos = 1 THEN (c2 % 16) * 16 + (c3 \div 4)
                    ELSE (c3 % 4) * 64 + c4])

\* util.js normalizeUnicodeToBuf: a string becomes the bytes of its characters
\* (charsize 8: one byte a character; 16: two bytes, low byte first);
\* a byte buffer is passed through
normalizeUnicodeToBuf(msg, charsize) ==
    IF msg.t = "string"
    THEN IF charsize = 8
         THEN [i \in 1..Len(msg.v) |-> msg.v[i] % 256]
         ELSE [i \in 1..(2 * Len(msg.v)) |->
                  IF i % 2 = 1 THEN msg.v[(i + 1) \div 2] % 256
                  ELSE msg.v[i \div 2] \div 256]
    ELSE msg.v

\* util.js normalizeBase64ToBuf: a string is base64-decoded, a buffer passed through
normalizeBase64ToBuf(msg) ==
    IF msg.t = "string" THEN base64ToArrBuf(msg.v) ELSE Ok(msg.v)

-----------------------------------------------------------------------------
(* The Primitive Provider (webcrypto.subtle), as an ideal functionality *)

\* a symmetric key handle holding `raw`
SecretKey(raw) ==
    [t |-> "CryptoKey", type |-> "secret", alg |-> AES_GCM, raw |-> raw,
     extractable |-> TRUE, usages |-> {"encrypt", "decrypt"}]

\* one half of an RSA keypair; `id` names the pair
RsaKey(type, id, alg, size, hash, extractable, usages) ==
    [t |-> "CryptoKey", type |-> type, alg |-> alg, id |-> id, size |-> size,
     hash |-> hash, extractable |-> extractable, usages |-> usages]

\* subtle.generateKey for AES: a fresh extractable key of `length` bits
subtle_generateKey_AES(seed, alg, length, extractable, usages) ==
    Ok([t |-> "CryptoKey", type |-> "secret", alg |-> alg,
        raw |-> RandomBytes(seed, length \div 8),
        extractable |-> extractable, usages |-> usages])

\* subtle.generateKey for RSA: the public half gets the public usages, the
\* private half the private ones; the public half is always extractable
subtle_generateKey_RSA(id, alg, size, exponent, hash, extractable, usages) ==
    Ok([publicKey |-> RsaKey("public", id, alg, size, hash, TRUE,
                             usages \cap {"encrypt", "verify"}),
        privateKey |-> RsaKey("private", id, alg, size, hash, extractable,
                              usages \cap {"decrypt", "sign"})])

\* subtle.importKey('raw', bytes, AES-GCM): the key data must be 128, 192 or 256 bits
subtle_importKey_raw(bytes, alg, extractable, usages) ==
    IF Len(bytes) \in {16, 24, 32}
    THEN Ok([t |-> "CryptoKey", type |-> "secret", alg |-> alg, raw |-> bytes,
             extractable |-> extractable, usages |-> usages])
    ELSE Err("DataError")

\* subtle.exportKey('raw', key)
subtle_exportKey_raw(key) ==
    IF key.t = "CryptoKey" /\ key.type = "secret" /\ key.extractable
    THEN Ok(key.raw)
    ELSE Err("InvalidAccessError")

\* the bytes of the ciphertexts and signatures the provider remembers
GcmCt(e) == RandomBytes(e.seed, Len(e.data) + TAG_LENGTH)
RsaCt(e) == RandomBytes(e.seed, e.size \div 8)
SigBytes(e) == RandomBytes(e.seed, e.size \div 8)

\* subtle.encrypt({name: AES-GCM, iv}, key, data): ciphertext with the tag appended
subtle_encrypt_GCM(key, iv, data, seed) ==
    IF key.t = "CryptoKey" /\ key.type = "secret" /\ "encrypt" \in key.usages
    THEN [out |-> Ok(RandomBytes(seed, Len(data) + TAG_LENGTH)),
          gcm |-> {[seed |-> seed, key |-> key.raw, iv |-> iv, data |-> data]}]
    ELSE [out |-> Err("InvalidAccessError"), gcm |-> {}]

\* subtle.decrypt({name: AES-GCM, iv}, key, bytes): the plaintext, or
\* OperationError when the bytes do not authenticate under key and iv
subtle_decrypt_GCM(key, iv, bytes, table) ==
    IF ~(key.t = "CryptoKey" /\ key.type = "secret" /\ "decrypt" \in key.usages)
    THEN Err("InvalidAccessError")
    ELSE LET m == {e \in table : /\ GcmCt(e) = bytes
                                 /\ e.key = key.raw
                                 /\ e.iv = iv}
         IN  IF m = {} THEN Err("OperationError")
             ELSE Ok((CHOOSE e \in m : TRUE).data)

\* subtle.encrypt({name: RSA-OAEP}, publicKey, data): one block of the modulus size
subtle_encrypt_RSA(key, data, seed) ==
    IF ~(/\ key.t = "CryptoKey"
         /\ key.type = "public"
         /\ key.alg = RSA_ALGORITHM
         /\ "encrypt" \in key.usages)
    THEN [out |-> Err("InvalidAccessError"), rsa |-> {}]
    ELSE IF Len(data) > key.size \div 8 - OAEP_OVERHEAD
    THEN [out |-> Err("OperationError"), rsa |-> {}]
    ELSE [out |-> Ok(RandomBytes(seed, key.size \div 8)),
          rsa |-> {[seed |-> seed, id |-> key.id, size |-> key.size,
                    data |-> data]}]

\* subtle.decrypt({name: RSA-OAEP}, privateKey, bytes)
subtle_decrypt_RSA(key, bytes, table) ==
    IF ~(/\ key.t = "CryptoKey"
         /\ key.type = "private"
         /\ key.alg = RSA_ALGORITHM
         /\ "decrypt" \in key.usages)
    THEN Err("InvalidAccessError")
    ELSE LET m == {e \in table : RsaCt(e) = bytes /\ e.id = key.id}
         IN  IF m = {} THEN Err("OperationError")
             ELSE Ok((CHOOSE e \in m : TRUE).data)

\* subtle.sign(RSA_SIGN_ALGORITHM, privateKey, data)
subtle_sign(key, data, seed) ==
    IF ~(/\ key.t = "CryptoKey"
         /\ key.type = "private"
         /\ key.alg = RSA_SIGN_ALGORITHM
         /\ "sign" \in key.usages)
    THEN [out |-> Err("InvalidAccessError"), sig |-> {}]
    ELSE [out |-> Ok(RandomBytes(seed, key.size \div 8)),
          sig |-> {[seed |-> seed, id |-> key.id, size |-> key.size,
                    data |-> data]}]

\* subtle.verify(RSA_SIGN_ALGORITHM, publicKey, signature, data)
subtle_verify(key, signature, data, table) ==
    IF ~(/\ key.t = "CryptoKey"
         /\ key.type = "public"
         /\ key.alg = RSA_SIGN_ALGORITHM
         /\ "verify" \in key.usages)
    THEN Err("InvalidAccessError")
    ELSE Ok(\E e \in table : /\ SigBytes(e) = signature
                             /\ e.id = key.id
                             /\ e.data = data)

-----------------------------------------------------------------------------
(* util.js: public keys, identifiers and the RSA operations *)

\* first byte of an exported public key (a DER SEQUENCE)
DER_SEQUENCE == 48

\* util.js getPublicKeyAsUint8Array: the exported public key, which carries
\* the modulus size and the key itself
getPublicKeyAsUint8Array(key) == <<DER_SEQUENCE, key.size \div 128, key.id>>

\* util.js importPublicKey: a provider handle for exported public-key bytes,
\* with the algorithm and usage that `use` asks for
importPublicKey(bytes, hashAlg, use) ==
    IF /\ Len(bytes) = 3
       /\ bytes[1] = DER_SEQUENCE
       /\ bytes[2] * 128 \in RsaSizes
    THEN Ok(RsaKey("public", bytes[3],
                   IF use = KeyUse_Exchange THEN RSA_ALGORITHM
                   ELSE RSA_SIGN_ALGORITHM,
                   bytes[2] * 128, hashAlg, TRUE,
                   IF use = KeyUse_Exchange THEN {"encrypt"} ELSE {"verify"}))
    ELSE Err("DataError")

\* the identifier tags: "did:s:" for a signing key, "did:x:" for an exchange key
DidTagSign == <<100, 105, 100, 58, 115, 58>>
DidTagExchange == <<100, 105, 100, 58, 120, 58>>

HasPrefix(s, p) == Len(s) >= Len(p) /\ SubSeq(s, 1, Len(p)) = p

\* util.js publicKeyToDid: tag followed by the base-encoded public key bytes
publicKeyToDid(key) ==
    Str((IF key.alg = RSA_SIGN_ALGORITHM THEN DidTagSign ELSE DidTagExchange)
        \o toBase64pad(getPublicKeyAsUint8Array(key)))

\* util.js didToPublicKey: the public key bytes an identifier carries; throws
\* when no tag matches or the remainder does not decode
didToPublicKey(did) ==
    IF did.t # "string" THEN Err("MalformedIdentifier")
    ELSE IF ~(HasPrefix(did.v, DidTagSign) \/ HasPrefix(did.v, DidTagExchange))
    THEN Err("MalformedIdentifier")
    ELSE LET body == base64ToArrBuf(SubSeq(did.v, Len(DidTagSign) + 1, Len(did.v)))
         IN  IF ~body.ok THEN Err("InvalidEncoding")
             ELSE Ok([publicKey |-> body.val,
                      use |-> IF HasPrefix(did.v, DidTagSign) THEN KeyUse_Sign
                              ELSE KeyUse_Exchange])

\* util.js rsaOperations.encrypt: the message, a string normalised to the
\* bytes of its characters, encrypted to the public key handle
rsaOperations_encrypt(msg, publicKey, seed) ==
    subtle_encrypt_RSA(publicKey,
                       normalizeUnicodeToBuf(msg, DEFAULT_CHAR_SIZE), seed)

\* util.js rsaOperations.sign
rsaOperations_sign(msg, privateKey, seed) ==
    subtle_sign(privateKey, normalizeUnicodeToBuf(msg, DEFAULT_CHAR_SIZE), seed)

\* util.js rsaOperations.verify (async): the signature is base64-decoded when
\* it is a string; a signature that does not decode rejects the promise
rsaOperations_verify(msg, sig, publicKey, table) ==
    LET s == normalizeBase64ToBuf(sig)
    IN  IF ~s.ok THEN s
        ELSE subtle_verify(publicKey, s.val,
                           normalizeUnicodeToBuf(msg, DEFAULT_CHAR_SIZE), table)

-----------------------------------------------------------------------------
(* src/_base.ts *)

\* publicExponent(): 0x010001
publicExponent == <<1, 0, 1>>

\* makeRSAKeypair without the check of `use`: every use but Exchange is
\* taken to be Sign
makeRSAKeypair_unchecked(size, hashAlg, use, id) ==
    LET alg == IF use = KeyUse_Exchange THEN RSA_ALGORITHM
               ELSE RSA_SIGN_ALGORITHM
        uses == IF use = KeyUse_Exchange THEN {"encrypt", "decrypt"}
                ELSE {"sign", "verify"}
    IN  [out |-> subtle_generateKey_RSA(id, alg, size, publicExponent,
                                        hashAlg, FALSE, uses),
         called |-> TRUE]

\* makeRSAKeypair(size, hashAlg, use): the outcome of the returned promise and
\* whether the provider was asked to generate a key; `id` is the pair the
\* provider would return
makeRSAKeypair(size, hashAlg, use, id) ==
    IF use \notin KeyUse
    THEN [out |-> Err("invalid key use"), called |-> FALSE]
    ELSE LET alg == IF use = KeyUse_Exchange THEN RSA_ALGORITHM
                    ELSE RSA_SIGN_ALGORITHM
             uses == IF use = KeyUse_Exchange THEN {"encrypt", "decrypt"}
                     ELSE {"sign", "verify"}
         IN  [out |-> subtle_generateKey_RSA(id, alg, size, publicExponent,
                                             hashAlg, FALSE, uses),
              called |-> TRUE]

\* verify importing the key for KeyUse.Exchange instead of KeyUse.Sign
verify_wrongUse(msg, sig, signingDid, table) ==
    LET _key == didToPublicKey(signingDid)
    IN  IF ~_key.ok THEN _key
        ELSE LET key == importPublicKey(_key.val.publicKey, SHA_256,
                                        KeyUse_Exchange)
             IN  IF ~key.ok THEN key
                 ELSE rsaOperations_verify(msg, sig, key.val, table)

\* verify(msg, sig, signingDid): the outcome of the returned promise.
\* didToPublicKey and importPublicKey run before the try block, so their
\* failure rejects the promise.  Inside the try block the promise of
\* rsaOperations.verify is returned without being awaited, so the catch clause
\* sees only a synchronous throw, which an async function never makes: the
\* returned promise settles as that promise does.
verify(msg, sig, signingDid, table) ==
    LET _key == didToPublicKey(signingDid)
    IN  IF ~_key.ok THEN _key
        ELSE LET key == importPublicKey(_key.val.publicKey, SHA_256, KeyUse_Sign)
             IN  IF ~key.ok THEN key
                 ELSE rsaOperations_verify(msg, sig, key.val, table)

\* AES.create(): a fresh key from the provider
AES_create(seed) ==
    subtle_generateKey_AES(seed, DEFAULT_SYMM_ALGORITHM, DEFAULT_SYMM_LENGTH,
                           TRUE, {"encrypt", "decrypt"})

\* AES.export(key): the raw key bytes
AES_export(key) == subtle_exportKey_raw(key)

\* importAesKey(key): a handle for raw key bytes
importAesKey(key) ==
    subtle_importKey_raw(key, AES_GCM, TRUE, {"encrypt", "decrypt"})

\* AES.import(key): a string is base64-decoded first
AES_import(key) ==
    IF key.t = "string"
    THEN LET b == base64ToArrBuf(key.v)
         IN  IF ~b.ok THEN b ELSE importAesKey(b.val)
    ELSE importAesKey(key.v)

\* encryptBytes(msg, key, opts): iv || ciphertext, the iv random unless
\* opts.iv is given; draws `seed` (iv) and `seed + 1` (provider)
encryptBytes(msg, key, optsIv, seed) ==
    LET data == normalizeUnicodeToBuf(msg, DEFAULT_CHAR_SIZE)
        iv == IF Truthy(optsIv) THEN optsIv.v ELSE randomBuf(seed, IV_LENGTH)
        r == subtle_encrypt_GCM(key, iv, data, seed + 1)
    IN  IF ~r.out.ok THEN r
        ELSE [out |-> Ok(joinBufs(iv, r.out.val)), gcm |-> r.gcm]

\* decryptBytes catching the provider's failure and returning an empty buffer
decryptBytes_swallow(msg, key, table) ==
    LET cipherText == normalizeBase64ToBuf(msg)
    IN  IF ~cipherText.ok THEN cipherText
        ELSE LET iv == Slice(cipherText.val, 0, IV_LENGTH)
                 cipherBytes == Slice(cipherText.val, IV_LENGTH,
                                      Len(cipherText.val))
                 r == subtle_decrypt_GCM(key, iv, cipherBytes, table)
             IN  IF r.ok THEN r ELSE Ok(<<>>)

\* decryptBytes(msg, key): msg is iv || ciphertext
decryptBytes(msg, key, table) ==
    LET cipherText == normalizeBase64ToBuf(msg)
    IN  IF ~cipherText.ok THEN cipherText
        ELSE LET iv == Slice(cipherText.val, 0, IV_LENGTH)
                 cipherBytes == Slice(cipherText.val, IV_LENGTH,
                                      Len(cipherText.val))
             IN  subtle_decrypt_GCM(key, iv, cipherBytes, table)

\* encrypt passing the caller's iv on to encryptBytes, which puts it in front
encrypt_alwaysPrefix(data, cryptoKey, format, iv, seed) ==
    LET key == IF isCryptoKey(cryptoKey) THEN Ok(cryptoKey)
               ELSE importAesKey(cryptoKey.v)
    IN  IF ~key.ok THEN [out |-> key, gcm |-> {}]
        ELSE encryptBytes(data, key.val, iv, seed)

\* encrypt(data, cryptoKey, format, iv), exported as AES.encrypt: with an iv
\* the provider's ciphertext as it is, without one the output of encryptBytes.
\* `format` selects ArrayBuffer or Uint8Array, which hold the same bytes.
encrypt(data, cryptoKey, format, iv, seed) ==
    LET key == IF isCryptoKey(cryptoKey) THEN Ok(cryptoKey)
               ELSE importAesKey(cryptoKey.v)
    IN  IF ~key.ok THEN [out |-> key, gcm |-> {}]
        ELSE IF Truthy(iv)
        THEN subtle_encrypt_GCM(key.val, iv.v, data.v, seed + 1)
        ELSE encryptBytes(data, key.val, Undefined, seed)

\* AES.decrypt(encryptedData, cryptoKey, iv): with an iv the data is the bare
\* ciphertext, without one it is iv || ciphertext
AES_decrypt(encryptedData, cryptoKey, iv, table) ==
    LET key == IF isCryptoKey(cryptoKey) THEN Ok(cryptoKey)
               ELSE importAesKey(cryptoKey.v)
    IN  IF ~key.ok THEN key
        ELSE IF Truthy(iv)
        THEN subtle_decrypt_GCM(key.val, iv.v,
                                IF encryptedData.t = "string"
                                THEN fromString(encryptedData.v)
                                ELSE encryptedData.v,
                                table)
        ELSE decryptBytes(encryptedData, key.val, table)

\* encryptTo creating a key whether or not one was given
encryptTo_createsKey_always(aesKey) == TRUE

\* encryptTo, line 137: `aesKey || await AES.create()` creates a key exactly
\* when the argument is falsy
encryptTo_createsKey(aesKey) == ~Truthy(aesKey)

\* `key` declared outside the function: every call reads the key that was set
\* by the latest call to have a key of the same kind
encryptTo_key_shared(locals, p) ==
    LET set == {q \in DOMAIN locals : locals[q].key.t = locals[p].key.t}
    IN  locals[CHOOSE q \in set : \A r \in set : r <= q].key

\* encryptTo, line 137: `const key` is a local of the call
encryptTo_key(locals, p) == locals[p].key

\* encryptTo, line 139: the content as bytes
encryptTo_content(content) ==
    IF content.t = "string" THEN Bytes(fromString(content.v)) ELSE content

\* encryptKeyTo, lines 267-272: whether the key is exported before it is wrapped
encryptKeyTo_exports(key) == isCryptoKey(key)

\* encryptKeyTo, line 274: the key, as given or as exported, encrypted to the
\* public key
encryptKeyTo_wrap(_key, publicKey, seed) ==
    rsaOperations_encrypt(_key, publicKey, seed)

\* the two parts joined in the wrong order
encryptTo_join_swapped(encryptedKey, encryptedContent) ==
    joinBufs(encryptedContent, encryptedKey)

\* encryptTo, line 144: the wrapped key followed by the encrypted content
encryptTo_join(encryptedKey, encryptedContent) ==
    joinBufs(encryptedKey, encryptedContent)

\* encryptTo returns the buffer; encryptTo.asString (line 173) its base64pad text
encryptTo_return(joined, asString) ==
    IF asString THEN Str(toBase64pad(joined)) ELSE Bytes(joined)

-----------------------------------------------------------------------------
(* openFrom: the recipient's side of the envelope (spec 4.3), built on      *)
(* AES.import and AES.decrypt                                               *)

\* the bytes of an envelope: the buffer, or the base64pad text decoded
EnvelopeBytes(env) ==
    IF env.t = "string" THEN base64ToArrBuf(env.v) ELSE Ok(env.v)

\* the wrapped-key segment of an envelope for a recipient key of `size` bits
WrappedKeyPart(bytes, size) == Slice(bytes, 0, size \div 8)

\* the rest of the envelope: nonce and ciphertext
ContentPart(bytes, size) == Slice(bytes, size \div 8, Len(bytes))

\* step 2: the raw symmetric key recovered with the recipient's private key
unwrapKey(bytes, privateKey, rsa) ==
    subtle_decrypt_RSA(privateKey, WrappedKeyPart(bytes, privateKey.size), rsa)

\* openFrom(envelope, recipientKeyPair): the content, or the failure
openFrom(env, keypair, gcm, rsa) ==
    LET bytes == EnvelopeBytes(env)
    IN  IF ~bytes.ok THEN bytes
        ELSE LET raw == unwrapKey(bytes.val, keypair.privateKey, rsa)
             IN  IF ~raw.ok THEN raw
                 ELSE LET key == AES_import(Bytes(raw.val))
                      IN  IF ~key.ok THEN key
                          ELSE AES_decrypt(
                                   Bytes(ContentPart(bytes.val,
                                                     keypair.privateKey.size)),
                                   key.val, Undefined, gcm)

-----------------------------------------------------------------------------
(* Inputs *)

Calls == 1..NCalls

\* a key the caller already holds, in the three forms encryptTo accepts
UserKeyRaw == RandomBytes(100, DEFAULT_SYMM_LENGTH \div 8)
UserKeyHandle == SecretKey(UserKeyRaw)
UserKeyBytes == Bytes(UserKeyRaw)
UserKeyString == Str(toBase64pad(UserKeyRaw))

\* the aesKey argument: absent, the empty string, a handle, raw bytes, base64
AesKeyArgs ==
    {Undefined, Str(<<>>), UserKeyHandle, UserKeyBytes, UserKeyString}

\* contents: a two-character string with a non-ASCII character, a buffer, the
\* empty buffer
Contents == {Str(<<104, 233>>), Bytes(<<1, 2, 3, 4, 5>>), Bytes(<<>>)}

\* the random draws of call p: its key (1), its iv (2), the provider's
\* ciphertexts (3, 4)
Seed(p, k) == 16 * p + k

NoArgs ==
    [content |-> Undefined, publicKey |-> Undefined, recipient |-> 0,
     aesKey |-> Undefined, asString |-> FALSE]

NoLocals ==
    [key |-> Undefined, imported |-> Undefined, encryptedContent |-> <<>>,
     wrapInput |-> Undefined, created |-> 0]

Pending == Err("pending")

Init ==
    /\ keyring = <<>>
    /\ keygen = [use |-> "", size |-> 0, ok |-> FALSE, called |-> FALSE]
    /\ gcmTable = {}
    /\ rsaTable = {}
    /\ sigTable = {}
    /\ pc = [p \in Calls |-> "idle"]
    /\ args = [p \in Calls |-> NoArgs]
    /\ loc = [p \in Calls |-> NoLocals]
    /\ result = [p \in Calls |-> Pending]
    /\ verified = [called |-> FALSE, msg |-> Undefined, sig |-> Undefined,
                   did |-> Undefined, out |-> Pending]
    /\ aesOp = [n |-> 0, data |-> Undefined, key |-> Undefined,
                iv |-> Undefined, enc |-> Pending, decIv |-> Undefined,
                dec |-> Pending]

callVars == <<pc, args, loc, result>>
providerTables == <<gcmTable, rsaTable, sigTable>>

-----------------------------------------------------------------------------
(* Key generation *)

\* a call of makeRSAKeypair(size, hashAlg, use); MaxKeys caps the keypairs
\* generated, a rejected call generates none
MakeRSAKeypair(size, hashAlg, use) ==
    /\ Len(keyring) < MaxKeys \/ use \notin KeyUse
    /\ LET r == makeRSAKeypair(size, hashAlg, use, Len(keyring) + 1)
       IN  /\ keygen' = [use |-> use, size |-> size, ok |-> r.out.ok,
                         called |-> r.called]
           /\ keyring' = IF r.out.ok THEN Append(keyring, r.out.val)
                         ELSE keyring
    /\ UNCHANGED <<providerTables, callVars, verified, aesOp>>

-----------------------------------------------------------------------------
(* encryptTo and encryptTo.asString, one action for each await *)

\* the call, up to its first await: AES.create when no key was given,
\* AES.import when the key is a string, AES.encrypt otherwise
Call(p, content, k, aesKey, asString) ==
    /\ pc[p] = "idle"
    /\ k \in 1..Len(keyring)
    /\ args' = [args EXCEPT ![p] =
                   [content |-> content, publicKey |-> keyring[k].publicKey,
                    recipient |-> k, aesKey |-> aesKey, asString |-> asString]]
    /\ loc' = [loc EXCEPT ![p] =
                  [NoLocals EXCEPT !.key =
                      IF encryptTo_createsKey(aesKey) THEN Undefined
                      ELSE aesKey]]
    /\ pc' = [pc EXCEPT ![p] =
                 IF encryptTo_createsKey(aesKey) THEN "create"
                 ELSE IF aesKey.t = "string" THEN "import" ELSE "encrypt"]
    /\ UNCHANGED <<keyring, keygen, providerTables, result, verified, aesOp>>

\* await AES.create() resumes (line 137)
EncryptTo_Create(p) ==
    /\ pc[p] = "create"
    /\ LET r == AES_create(Seed(p, 1))
       IN  /\ loc' = [loc EXCEPT ![p].key = r.val,
                                 ![p].created = loc[p].created + 1]
           /\ pc' = [pc EXCEPT ![p] = "encrypt"]
    /\ UNCHANGED <<keyring, keygen, providerTables, args, result, verified,
                   aesOp>>

\* await AES.import(key) resumes (line 140)
EncryptTo_Import(p) ==
    /\ pc[p] = "import"
    /\ LET r == AES_import(encryptTo_key(loc, p))
       IN  IF r.ok
           THEN /\ loc' = [loc EXCEPT ![p].imported = r.val]
                /\ pc' = [pc EXCEPT ![p] = "encrypt"]
                /\ UNCHANGED result
           ELSE /\ pc' = [pc EXCEPT ![p] = "rejected"]
                /\ result' = [result EXCEPT ![p] = r]
                /\ UNCHANGED loc
    /\ UNCHANGED <<keyring, keygen, providerTables, args, verified, aesOp>>

\* await AES.encrypt(content, key) resumes (lines 138-141); encryptKeyTo then
\* runs up to its first await: AES.export for a handle, the provider otherwise
EncryptTo_Encrypt(p) ==
    /\ pc[p] = "encrypt"
    /\ LET key == encryptTo_key(loc, p)
           r == encrypt(encryptTo_content(args[p].content),
                        IF key.t = "string" THEN loc[p].imported ELSE key,
                        IF args[p].asString THEN "arraybuffer" ELSE "uint8array",
                        Undefined, Seed(p, 2))
       IN  IF r.out.ok
           THEN /\ loc' = [loc EXCEPT
                              ![p].encryptedContent = r.out.val,
                              ![p].wrapInput =
                                  IF encryptKeyTo_exports(key) THEN Undefined
                                  ELSE key]
                /\ gcmTable' = gcmTable \cup r.gcm
                /\ pc' = [pc EXCEPT ![p] =
                             IF encryptKeyTo_exports(key) THEN "export"
                             ELSE "wrap"]
                /\ UNCHANGED result
           ELSE /\ pc' = [pc EXCEPT ![p] = "rejected"]
                /\ result' = [result EXCEPT ![p] = r.out]
                /\ UNCHANGED <<loc, gcmTable>>
    /\ UNCHANGED <<keyring, keygen, rsaTable, sigTable, args, verified, aesOp>>

\* await AES.export(key) resumes (line 269)
EncryptKeyTo_Export(p) ==
    /\ pc[p] = "export"
    /\ LET r == AES_export(encryptTo_key(loc, p))
       IN  IF r.ok
           THEN /\ loc' = [loc EXCEPT ![p].wrapInput = Bytes(r.val)]
                /\ pc' = [pc EXCEPT ![p] = "wrap"]
                /\ UNCHANGED result
           ELSE /\ pc' = [pc EXCEPT ![p] = "rejected"]
                /\ result' = [result EXCEPT ![p] = r]
                /\ UNCHANGED loc
    /\ UNCHANGED <<keyring, keygen, providerTables, args, verified, aesOp>>

\* await rsaOperations.encrypt(_key, publicKey) resumes (line 274); the call
\* joins the two parts and returns (lines 144, 171-173)
EncryptKeyTo_Wrap(p) ==
    /\ pc[p] = "wrap"
    /\ LET r == encryptKeyTo_wrap(loc[p].wrapInput, args[p].publicKey,
                                  Seed(p, 4))
       IN  IF r.out.ok
           THEN /\ rsaTable' = rsaTable \cup r.rsa
                /\ result' = [result EXCEPT ![p] =
                      Ok(encryptTo_return(
                             encryptTo_join(r.out.val, loc[p].encryptedContent),
                             args[p].asString))]
                /\ pc' = [pc EXCEPT ![p] = "done"]
           ELSE /\ pc' = [pc EXCEPT ![p] = "rejected"]
                /\ result' = [result EXCEPT ![p] = r.out]
                /\ UNCHANGED rsaTable
    /\ UNCHANGED <<keyring, keygen, gcmTable, sigTable, args, loc, verified,
                   aesOp>>

-----------------------------------------------------------------------------
(* Signatures *)

\* the messages signed: "hi" and "bye"
SignMsgs == <<Str(<<104, 105>>), Str(<<98, 121, 101>>)>>

\* the messages verified: the same, and "hi" as bytes
Msgs == {SignMsgs[1], SignMsgs[2], Bytes(<<104, 105>>)}

\* the signature scheme is deterministic: one draw for each key and message
SigSeed(k, m) == 200 + 4 * k + m

\* bytes that no signature consists of
GarbageBytes == <<1, 2, 3>>
\* "!!": not base64
GarbageString == <<33, 33>>

\* the signature arguments: every signature made, as bytes and as base64
\* text, and two pieces of garbage
SigArgs ==
    UNION {{Bytes(SigBytes(e)), Str(toBase64pad(SigBytes(e)))} : e \in sigTable}
    \cup {Bytes(GarbageBytes), Str(GarbageString)}

\* the identifier arguments: the identifier of every public key generated,
\* "nope" (no tag), a tag followed by text that does not decode, and a tag
\* followed by bytes that are no public key
DidArgs ==
    {publicKeyToDid(keyring[i].publicKey) : i \in 1..Len(keyring)}
    \cup {Str(<<110, 111, 112, 101>>),
          Str(DidTagSign \o GarbageString),
          Str(DidTagSign \o toBase64pad(GarbageBytes))}

\* sign(msg, privateKey): delegated to the provider (spec 4.4)
Sign(k, m) ==
    /\ k \in 1..Len(keyring)
    /\ Cardinality(sigTable) < MaxSigs
    /\ LET r == rsaOperations_sign(SignMsgs[m], keyring[k].privateKey,
                                   SigSeed(k, m))
       IN  sigTable' = sigTable \cup r.sig
    /\ UNCHANGED <<keyring, keygen, gcmTable, rsaTable, callVars, verified,
                   aesOp>>

\* a call of verify(msg, sig, signingDid); verify keeps no state, so one call
\* is followed in each behaviour
Verify(msg, sig, did) ==
    /\ ~verified.called
    /\ verified' = [called |-> TRUE, msg |-> msg, sig |-> sig, did |-> did,
                    out |-> verify(msg, sig, did, sigTable)]
    /\ UNCHANGED <<keyring, keygen, providerTables, callVars, aesOp>>

-----------------------------------------------------------------------------
(* AES.encrypt and AES.decrypt called directly *)

AesSeed(n) == 160 + 2 * n

\* a nonce the caller supplies
UserIv == Bytes(RandomBytes(150, IV_LENGTH))

AesData == {Bytes(<<>>), Bytes(<<7, 8, 9>>), Bytes(<<1, 2, 3, 4, 5>>)}

\* a call of AES.encrypt(data, key, format, iv)
AES_Encrypt(data, key, iv) ==
    /\ aesOp.n < MaxAesOps
    /\ LET r == encrypt(data, key, "uint8array", iv, AesSeed(aesOp.n))
       IN  /\ aesOp' = [n |-> aesOp.n + 1, data |-> data, key |-> key,
                        iv |-> iv, enc |-> r.out, decIv |-> Undefined,
                        dec |-> Pending]
           /\ gcmTable' = gcmTable \cup r.gcm
    /\ UNCHANGED <<keyring, keygen, rsaTable, sigTable, callVars, verified>>

\* a call of AES.decrypt(output, key, iv) on the output of the last
\* AES.encrypt, with the same key
AES_Decrypt(iv) ==
    /\ aesOp.enc.ok
    /\ aesOp.dec = Pending
    /\ aesOp' = [aesOp EXCEPT
                    !.decIv = iv,
                    !.dec = AES_decrypt(Bytes(aesOp.enc.val), aesOp.key, iv,
                                        gcmTable)]
    /\ UNCHANGED <<keyring, keygen, providerTables, callVars, verified>>

-----------------------------------------------------------------------------
(* Specifications *)

InvalidUse == "Other"

\* one envelope call with every form of argument
Next ==
    \/ \E size \in RsaSizes, use \in KeyUse \cup {InvalidUse} :
           MakeRSAKeypair(size, SHA_256, use)
    \/ \E content \in Contents, k \in 1..MaxKeys, aesKey \in AesKeyArgs,
          asString \in BOOLEAN :
           Call(1, content, k, aesKey, asString)
    \/ EncryptTo_Create(1)
    \/ EncryptTo_Import(1)
    \/ EncryptTo_Encrypt(1)
    \/ EncryptKeyTo_Export(1)
    \/ EncryptKeyTo_Wrap(1)

Spec == Init /\ [][Next]_vars

\* concurrent envelope calls to 1024-bit exchange keys; the calls are numbered
\* in the order they are made and each has a content of its own
ConcContent(p) ==
    IF p % 2 = 1 THEN Str(<<104, 232 + p>>) ELSE Bytes(<<p, 2, 3, 4, 5>>)

NextConc ==
    \/ MakeRSAKeypair(1024, SHA_256, KeyUse_Exchange)
    \/ \E p \in Calls :
        \/ \E k \in 1..MaxKeys, aesKey \in AesKeyArgs :
               /\ \A q \in 1..(p - 1) : pc[q] # "idle"
               /\ Call(p, ConcContent(p), k, aesKey, FALSE)
        \/ EncryptTo_Create(p)
        \/ EncryptTo_Import(p)
        \/ EncryptTo_Encrypt(p)
        \/ EncryptKeyTo_Export(p)
        \/ EncryptKeyTo_Wrap(p)

SpecConc == Init /\ [][NextConc]_vars

\* signing and verification
NextSig ==
    \/ \E use \in KeyUse : MakeRSAKeypair(1024, SHA_256, use)
    \/ \E k \in 1..MaxKeys, m \in DOMAIN SignMsgs : Sign(k, m)
    \/ \E msg \in Msgs, sig \in SigArgs, did \in DidArgs :
           Verify(msg, sig, did)

SpecSig == Init /\ [][NextSig]_vars

\* the symmetric cipher on its own
NextAES ==
    \/ \E data \in AesData, key \in {UserKeyHandle, UserKeyBytes},
          iv \in {Undefined, UserIv} :
           AES_Encrypt(data, key, iv)
    \/ \E iv \in {Undefined, UserIv} : AES_Decrypt(iv)

SpecAES == Init /\ [][NextAES]_vars

-----------------------------------------------------------------------------
(* Properties of key generation *)

\* the operations a keypair permits
PairUsages(kp) == kp.publicKey.usages \cup kp.privateKey.usages

LastKeypair == keyring[Len(keyring)]

\* C7: makeRSAKeypair gives an Exchange keypair exactly encrypt and decrypt
\* under the exchange algorithm, a Sign keypair exactly sign and verify under
\* the signing algorithm; no keypair permits both encrypting and signing; and
\* any other use is rejected before the provider is called.
C7_UsageIsolationAtKeygen ==
    /\ keygen.use = KeyUse_Exchange =>
           /\ keygen.ok /\ keygen.called
           /\ PairUsages(LastKeypair) = {"encrypt", "decrypt"}
           /\ LastKeypair.publicKey.alg = RSA_ALGORITHM
           /\ LastKeypair.privateKey.alg = RSA_ALGORITHM
    /\ keygen.use = KeyUse_Sign =>
           /\ keygen.ok /\ keygen.called
           /\ PairUsages(LastKeypair) = {"sign", "verify"}
           /\ LastKeypair.publicKey.alg = RSA_SIGN_ALGORITHM
           /\ LastKeypair.privateKey.alg = RSA_SIGN_ALGORITHM
    /\ keygen.use = InvalidUse => ~keygen.ok /\ ~keygen.called
    /\ \A i \in 1..Len(keyring) :
           ~(/\ PairUsages(keyring[i]) \cap {"encrypt", "decrypt"} # {}
             /\ PairUsages(keyring[i]) \cap {"sign", "verify"} # {})

\* an invalid use was rejected after a keypair of each use had been generated
C7_Witness ==
    /\ keygen.use = InvalidUse
    /\ ~keygen.called
    /\ \E i, j \in 1..Len(keyring) :
           /\ PairUsages(keyring[i]) = {"encrypt", "decrypt"}
           /\ PairUsages(keyring[j]) = {"sign", "verify"}

-----------------------------------------------------------------------------
(* Properties of the envelope *)

Done(p) == pc[p] = "done"

RecipientOf(p) == keyring[args[p].recipient]

RecipientSize(p) == RecipientOf(p).privateKey.size

\* the bytes of the envelope call p returned
EnvBytes(p) == EnvelopeBytes(result[p].val).val

\* the content of call p as bytes
ContentBytes(p) == encryptTo_content(args[p].content).v

\* the envelope of call p opened by its recipient
Opened(p) == openFrom(result[p].val, RecipientOf(p), gcmTable, rsaTable)

\* the provider's records of the two ciphertexts in the envelope of call p
WrapRecords(p) ==
    {w \in rsaTable : RsaCt(w) = WrappedKeyPart(EnvBytes(p), RecipientSize(p))}
CipherRecords(p) ==
    {e \in gcmTable :
        e.iv \o GcmCt(e) = ContentPart(EnvBytes(p), RecipientSize(p))}

\* the raw bytes of a key in any of its forms
KeyRaw(key) ==
    IF key.t = "CryptoKey" THEN key.raw
    ELSE IF key.t = "string" THEN base64ToArrBuf(key.v).val
    ELSE key.v

\* whether the caller supplied a key: a handle, raw bytes or base64 text
Supplied(aesKey) ==
    \/ aesKey.t \in {"CryptoKey", "bytes"}
    \/ aesKey.t = "string" /\ Len(aesKey.v) > 0

\* C2: opening the envelope encryptTo returned yields the bytes of the
\* content, for every content, recipient and form of the symmetric key.
C2_EnvelopeRoundTrip ==
    \A p \in Calls : Done(p) => Opened(p) = Ok(ContentBytes(p))

\* C9: the bytes encrypted to the recipient are the raw bytes of the key that
\* encrypted the content.
C9_WrappedKeyIsContentKey ==
    \A p \in Calls : Done(p) =>
        \E w \in WrapRecords(p), e \in CipherRecords(p) : w.data = e.key

\* C5: the envelope, or the text decoded, is the wrapped key, of the
\* recipient's key size in bytes, then the 12-byte nonce, then the ciphertext
\* of the content, and nothing else.
C5_EnvelopeLayout ==
    \A p \in Calls : Done(p) =>
        /\ result[p].val.t = IF args[p].asString THEN "string" ELSE "bytes"
        /\ EnvelopeBytes(result[p].val).ok
        /\ \E w \in rsaTable, e \in gcmTable :
               /\ EnvBytes(p) = RsaCt(w) \o e.iv \o GcmCt(e)
               /\ Len(RsaCt(w)) = RecipientSize(p) \div 8
               /\ w.id = RecipientOf(p).publicKey.id
               /\ Len(e.iv) = IV_LENGTH
               /\ e.data = ContentBytes(p)
               /\ Len(EnvBytes(p)) = RecipientSize(p) \div 8 + IV_LENGTH
                                     + Len(ContentBytes(p)) + TAG_LENGTH

\* envelopes of both forms were returned for a 2048-bit recipient
C5_Witness ==
    /\ Done(1)
    /\ args[1].asString
    /\ RecipientSize(1) = 2048
    /\ Len(ContentBytes(1)) > 0
    /\ args[1].aesKey = UserKeyString

\* byte i of b with bit `bit` flipped
FlipBit(b, i, bit) ==
    LET w == 2 ^ bit
    IN  [b EXCEPT ![i] = IF (b[i] \div w) % 2 = 1 THEN b[i] - w ELSE b[i] + w]

\* the positions of the authenticated ciphertext in the envelope of call p
CiphertextPositions(p) ==
    (RecipientSize(p) \div 8 + IV_LENGTH + 1)..Len(EnvBytes(p))

\* C4: with any bit of the authenticated ciphertext flipped, opening the
\* envelope fails; it never returns a value.
C4_TamperDetection ==
    \A p \in Calls : Done(p) =>
        LET env == EnvBytes(p)
            recipient == RecipientOf(p)
        IN  \A i \in CiphertextPositions(p), bit \in 0..7 :
                ~openFrom(Bytes(FlipBit(env, i, bit)), recipient,
                          gcmTable, rsaTable).ok

\* an envelope that opens to its content as returned, so that a failure after
\* a flip is the flip's doing
C4_Witness ==
    /\ Done(1)
    /\ Opened(1) = Ok(ContentBytes(1))
    /\ Len(ContentBytes(1)) > 0

\* the calls that got past the choice of key
KeyChosen(p) == pc[p] \in {"import", "encrypt", "export", "wrap", "done"}

\* C6: without a key from the caller, a call asks the provider for exactly one
\* key and no two calls get the same one; with a key from the caller, the
\* provider is not asked and the content is encrypted under the caller's key.
\* (The empty string is no key: `aesKey || ...` takes it as absent.)
C6_SymmetricKeySelection ==
    \A p \in Calls :
        /\ KeyChosen(p) /\ ~Supplied(args[p].aesKey) =>
               /\ loc[p].created = 1
               /\ \A q \in Calls \ {p} :
                      KeyChosen(q) /\ ~Supplied(args[q].aesKey) =>
                          loc[q].key # loc[p].key
        /\ KeyChosen(p) /\ Supplied(args[p].aesKey) => loc[p].created = 0
        /\ Done(p) =>
               \E e \in CipherRecords(p) :
                   e.key = IF Supplied(args[p].aesKey)
                           THEN KeyRaw(args[p].aesKey)
                           ELSE loc[p].key.raw

\* two finished calls, one with a generated key and one with the caller's
C6_Witness ==
    /\ Done(1) /\ Done(2)
    /\ ~Supplied(args[1].aesKey)
    /\ args[2].aesKey = UserKeyHandle

\* the key of call p: the caller's, or the one the provider made for p
OwnKey(p) == IF Supplied(args[p].aesKey) THEN args[p].aesKey ELSE loc[p].key

\* the key material of call p: the raw bytes of its key and, for a key given
\* as text, the bytes of that text
OwnKeyMaterial(p) ==
    {KeyRaw(OwnKey(p))} \cup
    (IF OwnKey(p).t = "string"
     THEN {normalizeUnicodeToBuf(OwnKey(p), DEFAULT_CHAR_SIZE)} ELSE {})

\* the envelope of call p is made of p's own recipient, key and content
OwnEnvelope(p) ==
    \E w \in WrapRecords(p), e \in CipherRecords(p) :
        /\ EnvBytes(p) = RsaCt(w) \o e.iv \o GcmCt(e)
        /\ w.id = RecipientOf(p).publicKey.id
        /\ w.data \in OwnKeyMaterial(p)
        /\ e.key = KeyRaw(OwnKey(p))
        /\ e.data = ContentBytes(p)
        /\ \A q \in Calls \ {p} : Done(q) =>
               /\ e \notin CipherRecords(q)
               /\ w \notin WrapRecords(q)

\* a step leaves the arguments of every call in flight as the caller gave them
ArgsKept == \A p \in Calls : pc[p] # "idle" => args'[p] = args[p]

\* C8: however the calls interleave at their awaits, each returns an envelope
\* whose wrapped key, nonce and ciphertext are those of its own content, key
\* and recipient, and no call changes an argument of any call.
C8_ConcurrentSealsIndependent ==
    /\ [](\A p \in Calls : Done(p) => OwnEnvelope(p))
    /\ [][ArgsKept]_vars

\* two calls with different contents and recipients, both finished
C8_Witness ==
    /\ Done(1) /\ Done(2)
    /\ args[1].content # args[2].content
    /\ args[1].recipient # args[2].recipient
    /\ ~Supplied(args[1].aesKey) /\ ~Supplied(args[2].aesKey)

-----------------------------------------------------------------------------
(* Properties of verify *)

\* the provider's records of the signature given to verify
SigRecords(sig) ==
    {e \in sigTable : /\ normalizeBase64ToBuf(sig).ok
                      /\ SigBytes(e) = normalizeBase64ToBuf(sig).val}

\* the generated keypairs whose public key the identifier names
NamedKeys(did) ==
    {i \in 1..Len(keyring) : publicKeyToDid(keyring[i].publicKey) = did}

\* the signature was made over this message by the key the identifier names
Genuine(msg, sig, did) ==
    \E e \in SigRecords(sig), i \in NamedKeys(did) :
        /\ e.id = keyring[i].privateKey.id
        /\ e.data = normalizeUnicodeToBuf(msg, DEFAULT_CHAR_SIZE)

\* C1: verify never rejects: for every input the promise resolves to a
\* boolean, and to false unless the triple is genuine.
C1_VerifyNeverRejects ==
    verified.called =>
        /\ verified.out.ok
        /\ verified.out.val \in BOOLEAN
        /\ ~Genuine(verified.msg, verified.sig, verified.did) =>
               verified.out.val = FALSE

\* C3: for a signature made by a generated Sign key and the identifier of a
\* generated public key, verify resolves to true when the signature was made
\* over the message by the key the identifier names, and to false when it was
\* made over another message or by another key.
C3_VerifyGenuineOnly ==
    /\ verified.called
    /\ SigRecords(verified.sig) # {}
    /\ NamedKeys(verified.did) # {}
    => verified.out = Ok(Genuine(verified.msg, verified.sig, verified.did))

\* a genuine triple, the signature given as base64 text, was verified
C3_Witness ==
    /\ verified.called
    /\ verified.sig.t = "string"
    /\ SigRecords(verified.sig) # {}
    /\ NamedKeys(verified.did) # {}
    /\ Genuine(verified.msg, verified.sig, verified.did)
    /\ verified.out = Ok(TRUE)

-----------------------------------------------------------------------------
(* Properties of AES.encrypt *)

\* the output of the last AES.encrypt is nonce || ciphertext of its data
NoncePrefixed ==
    \E e \in gcmTable :
        /\ aesOp.enc.val = e.iv \o GcmCt(e)
        /\ Len(e.iv) = IV_LENGTH
        /\ e.data = aesOp.data.v
        /\ e.key = KeyRaw(aesOp.key)

\* the output of the last AES.encrypt is the ciphertext of its data under
\* the caller's nonce, and nothing in front of it
BareCiphertext ==
    \E e \in gcmTable :
        /\ aesOp.enc.val = GcmCt(e)
        /\ e.iv = aesOp.iv.v
        /\ e.data = aesOp.data.v
        /\ e.key = KeyRaw(aesOp.key)

\* AES.decrypt of the last output with the same key and the given nonce
DecryptedWith(iv) ==
    AES_decrypt(Bytes(aesOp.enc.val), aesOp.key, iv, gcmTable)

=============================================================================
